---- MODULE Spec2Model ----
(***************************************************************************)
(* Model of src/src/config.rs: the ReconnectOptions policy object, its    *)
(* builder methods, and the standard reconnect strategy iterator.         *)
(*                                                                         *)
(* Arc<dyn Fn> objects live in `heap`; an Arc is its address (index) in    *)
(* the heap, so that cloning a ReconnectOptions copies addresses and the   *)
(* closure objects stay shared.  Box<dyn Iterator> values returned by a    *)
(* call of retries_to_attempt_fn live in `seqs`.                          *)
(***************************************************************************)
EXTENDS Integers, Sequences, FiniteSets, TLC

VARIABLES
    pol,    \* sequence of live ReconnectOptions values (one per holder)
    heap,   \* sequence of closure objects behind the Arcs
    calls,  \* calls[<<p, a>>]: how many times holder p invoked callback Arc a
    seqs    \* sequence of DurationIterators handed out, with what they yielded

vars == <<pol, heap, calls, seqs>>

------------------------------------------------------------------------------
(* Bounds *)

MaxPolicies == 2
MaxArcs == 6
MaxSeqs == 2
MaxDraws == 5
MaxCalls == 2
MaxSeqsDefault == 2
MaxDrawsDefault == 13
MaxDrawsDrain == 1011

------------------------------------------------------------------------------
(* Option<Duration>: Some(d) is the number of seconds d >= 0, None is -1 *)

None == -1

\* std::iter::repeat is absent from an iterator made of a Vec alone
NoRepeat == -1

\* The closures a user hands to with_retries_generator: || vec![...]
Generators == { <<2, 2, 2>>, <<3, 1>> }

CallbackFields ==
    {"on_connect_callback", "on_disconnect_callback", "on_connect_fail_callback"}

------------------------------------------------------------------------------
(* Closure objects *)

\* get_standard_reconnect_strategy as a function item
StdStrategyObj == [kind |-> "std", items |-> <<>>, count |-> 0]

\* || {}
NoopObj == [kind |-> "noop", items |-> <<>>, count |-> 0]

\* a user callback that owns a counter and increments it on every call
UserCallbackObj == [kind |-> "cb", items |-> <<>>, count |-> 0]

\* move || Box::new(retries_generator().into_iter()); `count` is the number
\* of times retries_generator has run
WrapGeneratorEager(g) == [kind |-> "gen", items |-> g, count |-> 1]

WrapGenerator(g) == [kind |-> "gen", items |-> g, count |-> 0]

------------------------------------------------------------------------------
(* Iterators *)

\* vec.into_iter().chain(repeat(d)) keeps repeating its last element
VecIntoIterSticky(v) ==
    [kind |-> "Chain", rest |-> v, aDone |-> FALSE, rep |-> v[Len(v)]]

\* vec.into_iter()
VecIntoIter(v) == [kind |-> "IntoIter", rest |-> v, aDone |-> FALSE, rep |-> NoRepeat]

InitialAttemptsSwapped ==
    << 5, 10, 20, 30, 40, 50, 60, 60 * 5, 60 * 2, 60 * 10, 60 * 20 >>

InitialAttempts ==
    << 5, 10, 20, 30, 40, 50, 60, 60 * 2, 60 * 5, 60 * 10, 60 * 20 >>

GetStandardReconnectStrategyShort ==
    [kind |-> "Chain", rest |-> InitialAttempts, aDone |-> FALSE, rep |-> 60 * 3]

GetStandardReconnectStrategy ==
    [kind |-> "Chain", rest |-> InitialAttempts, aDone |-> FALSE, rep |-> 60 * 30]

\* Iterator::next: the value yielded and the iterator afterwards
IterNext(it) ==
    IF it.kind = "IntoIter"
    THEN IF it.rest # <<>>
         THEN [val |-> Head(it.rest), it |-> [it EXCEPT !.rest = Tail(it.rest)]]
         ELSE [val |-> None, it |-> it]
    ELSE IF ~it.aDone /\ it.rest # <<>>
         THEN [val |-> Head(it.rest), it |-> [it EXCEPT !.rest = Tail(it.rest)]]
         ELSE [val |-> it.rep, it |-> [it EXCEPT !.aDone = TRUE]]

\* What calling the closure behind a retries_to_attempt_fn Arc returns
FactoryResult(obj) ==
    IF obj.kind = "std" THEN GetStandardReconnectStrategy ELSE VecIntoIter(obj.items)

\* What calling it does to the closure object: the wrapper runs the user's
\* generator once; the standard strategy has no state
FactoryRun(obj) ==
    IF obj.kind = "gen" THEN [obj EXCEPT !.count = @ + 1] ELSE obj

------------------------------------------------------------------------------
(* Callbacks *)

NoopBodyCounting(obj) == [obj EXCEPT !.count = @ + 1]

\* the body of || {}
NoopBody(obj) == obj

\* What calling the closure behind a callback Arc does to the object
CallbackRun(obj) ==
    IF obj.kind = "cb" THEN [obj EXCEPT !.count = @ + 1] ELSE NoopBody(obj)

------------------------------------------------------------------------------
(* ReconnectOptions *)

NewOptionsRetrying(base) ==
    [ retries_to_attempt_fn       |-> base + 1,
      exit_if_first_connect_fails |-> FALSE,
      on_connect_callback         |-> base + 2,
      on_disconnect_callback      |-> base + 3,
      on_connect_fail_callback    |-> base + 4 ]

\* ReconnectOptions::new(), its four Arc::new placed at base+1 .. base+4
NewOptions(base) ==
    [ retries_to_attempt_fn       |-> base + 1,
      exit_if_first_connect_fails |-> TRUE,
      on_connect_callback         |-> base + 2,
      on_disconnect_callback      |-> base + 3,
      on_connect_fail_callback    |-> base + 4 ]

NewObjects == << StdStrategyObj, NoopObj, NoopObj, NoopObj >>

\* a clone that duplicates the closure objects instead of sharing them
CloneOptionsDeep(o, h) ==
    [ opts |-> [ retries_to_attempt_fn       |-> Len(h) + 1,
                 exit_if_first_connect_fails |-> o.exit_if_first_connect_fails,
                 on_connect_callback         |-> Len(h) + 2,
                 on_disconnect_callback      |-> Len(h) + 3,
                 on_connect_fail_callback    |-> Len(h) + 4 ],
      heap |-> h \o << h[o.retries_to_attempt_fn], h[o.on_connect_callback],
                       h[o.on_disconnect_callback], h[o.on_connect_fail_callback] >> ]

\* #[derive(Clone)] clones every field: Arc::clone keeps the address and
\* allocates nothing
CloneOptions(o, h) == [opts |-> o, heap |-> h]

\* a builder writing through to every holder
WithFieldAll(pols, p, field, v) ==
    [q \in DOMAIN pols |-> [pols[q] EXCEPT ![field] = v]]

\* `self.field = v; self` on the value held by p (self is moved in and out)
WithField(pols, p, field, v) == [pols EXCEPT ![p][field] = v]

OnDisconnectFieldSlip == "on_connect_callback"

\* the field with_on_disconnect_callback assigns
OnDisconnectField == "on_disconnect_callback"

\* the field assigned by the builder method named after a callback field
BuilderTarget(f) == IF f = "on_disconnect_callback" THEN OnDisconnectField ELSE f

CallsOf(p, a) == IF <<p, a>> \in DOMAIN calls THEN calls[<<p, a>>] ELSE 0

Called(p, a) == (<<p, a>> :> (CallsOf(p, a) + 1)) @@ calls

\* every call made of Arc a, through whichever holder
RECURSIVE SumCalls(_, _)
SumCalls(n, a) == IF n = 0 THEN 0 ELSE CallsOf(n, a) + SumCalls(n - 1, a)

TotalCalls(a) == SumCalls(Len(pol), a)

RECURSIVE SumArcs(_)
SumArcs(a) == IF a = 0 THEN 0 ELSE TotalCalls(a) + SumArcs(a - 1)

\* every call made so far
AllCalls == SumArcs(Len(heap))

------------------------------------------------------------------------------
(* Operations *)

Init ==
    /\ pol = <<>>
    /\ heap = <<>>
    /\ calls = <<>>
    /\ seqs = <<>>

New ==
    /\ Len(pol) < MaxPolicies
    /\ Len(heap) + 4 <= MaxArcs
    /\ pol' = Append(pol, NewOptions(Len(heap)))
    /\ heap' = heap \o NewObjects
    /\ UNCHANGED << calls, seqs >>

Clone(p) ==
    /\ Len(pol) < MaxPolicies
    /\ LET r == CloneOptions(pol[p], heap)
       IN /\ pol' = Append(pol, r.opts)
          /\ heap' = r.heap
    /\ UNCHANGED << calls, seqs >>

WithRetriesGenerator(p, g) ==
    /\ Len(heap) < MaxArcs
    /\ heap' = Append(heap, WrapGenerator(g))
    /\ pol' = WithField(pol, p, "retries_to_attempt_fn", Len(heap) + 1)
    /\ UNCHANGED << calls, seqs >>

WithExitIfFirstConnectFails(p, value) ==
    /\ pol' = WithField(pol, p, "exit_if_first_connect_fails", value)
    /\ UNCHANGED << heap, calls, seqs >>

\* with_on_connect_callback, with_on_disconnect_callback and
\* with_on_connect_fail_callback, f naming the callback
WithCallback(p, f) ==
    /\ Len(heap) < MaxArcs
    /\ heap' = Append(heap, UserCallbackObj)
    /\ pol' = WithField(pol, p, BuilderTarget(f), Len(heap) + 1)
    /\ UNCHANGED << calls, seqs >>

WithOnConnectCallback(p) == WithCallback(p, "on_connect_callback")

WithOnDisconnectCallback(p) == WithCallback(p, "on_disconnect_callback")

WithOnConnectFailCallback(p) == WithCallback(p, "on_connect_fail_callback")

\* (options.on_..._callback)() by a holder of the options
InvokeCallback(p, f) ==
    /\ AllCalls < MaxCalls
    /\ heap' = [heap EXCEPT ![pol[p][f]] = CallbackRun(@)]
    /\ calls' = Called(p, pol[p][f])
    /\ UNCHANGED << pol, seqs >>

\* (options.retries_to_attempt_fn)() by a holder of the options
CallFactory(p, maxSeqs) ==
    /\ Len(seqs) < maxSeqs
    /\ LET a == pol[p].retries_to_attempt_fn
       IN /\ seqs' = Append(seqs, [ via |-> p, fn |-> a,
                                    it |-> FactoryResult(heap[a]),
                                    drawn |-> <<>> ])
          /\ heap' = [heap EXCEPT ![a] = FactoryRun(@)]
    /\ UNCHANGED << pol, calls >>

\* one cursor for all the iterators a factory has handed out
AdvanceShared(ss, i) ==
    [j \in DOMAIN ss |->
        IF j = i
        THEN [ss[j] EXCEPT !.it = IterNext(ss[i].it).it,
                           !.drawn = Append(@, IterNext(ss[i].it).val)]
        ELSE IF ss[j].fn = ss[i].fn
             THEN [ss[j] EXCEPT !.it = IterNext(@).it]
             ELSE ss[j]]

\* iterator i.next(): the iterator moves on, the value is recorded
Advance(ss, i) ==
    [ss EXCEPT ![i].it = IterNext(ss[i].it).it,
               ![i].drawn = Append(@, IterNext(ss[i].it).val)]

Draw(i, maxDraws) ==
    /\ Len(seqs[i].drawn) < maxDraws
    /\ seqs' = Advance(seqs, i)
    /\ UNCHANGED << pol, heap, calls >>

Holders == 1 .. Len(pol)

\* Building options: new(), clone() and the five builder methods
Next ==
    \/ New
    \/ \E p \in Holders : Clone(p)
    \/ \E p \in Holders, g \in Generators : WithRetriesGenerator(p, g)
    \/ \E p \in Holders, value \in BOOLEAN : WithExitIfFirstConnectFails(p, value)
    \/ \E p \in Holders : WithOnConnectCallback(p)
    \/ \E p \in Holders : WithOnDisconnectCallback(p)
    \/ \E p \in Holders : WithOnConnectFailCallback(p)

Spec == Init /\ [][Next]_vars

\* Holders of clones installing callbacks and invoking them
NextShare ==
    \/ New
    \/ \E p \in Holders : Clone(p)
    \/ \E p \in Holders : WithOnConnectCallback(p)
    \/ \E p \in Holders : WithOnDisconnectCallback(p)
    \/ \E p \in Holders : WithOnConnectFailCallback(p)
    \/ \E p \in Holders, f \in CallbackFields : InvokeCallback(p, f)

SpecShare == Init /\ [][NextShare]_vars

\* The options of new() in use: callbacks invoked while sequences are drawn
NextNoop ==
    \/ New
    \/ \E p \in Holders, f \in CallbackFields : InvokeCallback(p, f)
    \/ \E p \in Holders : CallFactory(p, MaxSeqs)
    \/ \E i \in DOMAIN seqs : Draw(i, MaxDraws)

SpecNoop == Init /\ [][NextNoop]_vars

\* One holder building its options, calling the factory and draining the
\* sequences it hands out
NextFactory ==
    \/ New
    \/ \E p \in Holders, g \in Generators : WithRetriesGenerator(p, g)
    \/ \E p \in Holders, value \in BOOLEAN : WithExitIfFirstConnectFails(p, value)
    \/ \E p \in Holders : WithOnConnectCallback(p)
    \/ \E p \in Holders : WithOnDisconnectCallback(p)
    \/ \E p \in Holders : WithOnConnectFailCallback(p)
    \/ \E p \in Holders : CallFactory(p, MaxSeqs)
    \/ \E i \in DOMAIN seqs : Draw(i, MaxDraws)

SpecFactory == Init /\ [][NextFactory]_vars

\* The standard strategy alone: options built by new() and their clones
NextDefault ==
    \/ New
    \/ \E p \in Holders : Clone(p)
    \/ \E p \in Holders : CallFactory(p, MaxSeqsDefault)
    \/ \E i \in DOMAIN seqs : Draw(i, MaxDrawsDefault)

SpecDefault == Init /\ [][NextDefault]_vars

\* One sequence of the standard strategy, drained far into its steady state
NextDrain ==
    \/ New
    \/ \E p \in Holders : seqs = <<>> /\ CallFactory(p, MaxSeqs)
    \/ \E i \in DOMAIN seqs : Draw(i, MaxDrawsDrain)

SpecDrain == Init /\ [][NextDrain]_vars

TypeOK ==
    /\ Len(pol) <= MaxPolicies
    /\ Len(heap) <= MaxArcs

------------------------------------------------------------------------------
(* Properties *)

Arcs == 1 .. Len(heap)

Fields == DOMAIN NewOptions(0)

\* the schedule as documented: eleven escalating waits, then 30 minutes
DefaultSchedule(k) ==
    IF k <= 11
    THEN << 5, 10, 20, 30, 40, 50, 60, 120, 300, 600, 1200 >>[k]
    ELSE 1800

\* the sequences handed out by the standard strategy
DefaultSeqs == { i \in DOMAIN seqs : heap[seqs[i].fn].kind = "std" }

\* how many sequences Arc a has handed out
FactoryCalls(a) == Cardinality({ i \in DOMAIN seqs : seqs[i].fn = a })

RECURSIVE Somes(_)
\* the values of a run of draws, without the Nones
Somes(d) ==
    IF d = <<>> THEN <<>>
    ELSE IF Head(d) = None THEN Somes(Tail(d)) ELSE <<Head(d)>> \o Somes(Tail(d))

\* C1: every sequence of the default policy yields 5, 10, 20, 30, 40, 50, 60,
\* 120, 300, 600, 1200 seconds and then 1800 seconds at every later draw
\* (1000 of them and more), and never yields None.
C1_DefaultScheduleExact ==
    \A i \in DefaultSeqs :
        \A k \in 1 .. Len(seqs[i].drawn) :
            /\ seqs[i].drawn[k] = DefaultSchedule(k)
            /\ seqs[i].drawn[k] # None

C1_Witness ==
    \E i \in DefaultSeqs :
        /\ Len(seqs[i].drawn) >= 1011
        /\ seqs[i].drawn[11] = 1200
        /\ seqs[i].drawn[1011] = 1800

\* C2: two sequences of the default factory share no cursor: whatever the
\* interleaving of draws and whoever draws, each sequence has yielded the
\* schedule up to its own position and yields next the schedule's value at
\* its own next position.
C2_NoSharedCursor ==
    \A i \in DefaultSeqs :
        /\ \A k \in 1 .. Len(seqs[i].drawn) : seqs[i].drawn[k] = DefaultSchedule(k)
        /\ IterNext(seqs[i].it).val = DefaultSchedule(Len(seqs[i].drawn) + 1)

C2_Witness ==
    \E i, j \in DefaultSeqs :
        /\ i # j
        /\ seqs[i].fn = seqs[j].fn
        /\ seqs[i].via # seqs[j].via
        /\ Len(seqs[i].drawn) = 13
        /\ Len(seqs[j].drawn) = 3

\* C3: new() builds options with exit_if_first_connect_fails = true, and
\* with_exit_if_first_connect_fails(v) returns options whose flag is v.
C3_ExitFlag ==
    [][ /\ New => pol'[Len(pol')].exit_if_first_connect_fails = TRUE
        /\ \A p \in Holders, v \in BOOLEAN :
              WithExitIfFirstConnectFails(p, v)
                  => pol'[p].exit_if_first_connect_fails = v ]_vars

C3_Witness ==
    \E p, q \in Holders :
        /\ pol[p].exit_if_first_connect_fails = FALSE
        /\ pol[q].exit_if_first_connect_fails = TRUE

\* the builder has written field f of holder p and no other field of p, and
\* has left every closure object that existed alone
OnlyField(p, f) ==
    /\ \A g \in Fields \ {f} : pol'[p][g] = pol[p][g]
    /\ SubSeq(heap', 1, Len(heap)) = heap

\* field f of holder p now holds a new Arc around obj
FreshArc(p, f, obj) ==
    /\ pol'[p][f] = Len(heap) + 1
    /\ heap' = Append(heap, obj)

\* C5: each of the five builder methods changes exactly the field it names:
\* the other fields of the options read as before, after any builder calls.
C5_BuilderFrame ==
    [][ \A p \in Holders :
          /\ WithOnConnectCallback(p)
               => OnlyField(p, "on_connect_callback")
                  /\ FreshArc(p, "on_connect_callback", UserCallbackObj)
          /\ WithOnDisconnectCallback(p)
               => OnlyField(p, "on_disconnect_callback")
                  /\ FreshArc(p, "on_disconnect_callback", UserCallbackObj)
          /\ WithOnConnectFailCallback(p)
               => OnlyField(p, "on_connect_fail_callback")
                  /\ FreshArc(p, "on_connect_fail_callback", UserCallbackObj)
          /\ \A g \in Generators :
               WithRetriesGenerator(p, g)
                 => OnlyField(p, "retries_to_attempt_fn")
                    /\ pol'[p].retries_to_attempt_fn = Len(heap) + 1
          /\ \A v \in BOOLEAN :
               WithExitIfFirstConnectFails(p, v)
                 => OnlyField(p, "exit_if_first_connect_fails") ]_vars

C5_Witness ==
    \E p \in Holders :
        /\ heap[pol[p].on_disconnect_callback].kind = "cb"
        /\ heap[pol[p].on_connect_callback].kind = "noop"
        /\ heap[pol[p].on_connect_fail_callback].kind = "noop"
        /\ heap[pol[p].retries_to_attempt_fn].kind = "gen"
        /\ pol[p].exit_if_first_connect_fails = TRUE

\* C6: a clone shares the callback objects: the counter a user callback owns
\* equals the number of invocations made through all the holders together.
C6_SharedCounter ==
    \A a \in Arcs :
        heap[a].kind = "cb" => heap[a].count = TotalCalls(a)

C6_Witness ==
    \E a \in Arcs :
        /\ heap[a].kind = "cb"
        /\ CallsOf(1, a) = 1
        /\ CallsOf(2, a) = 1
        /\ heap[a].count = 2

\* C7: invoking a callback installed by new() changes nothing: the options
\* of every holder, the closure objects and the sequences handed out stay
\* as they were.
C7_DefaultCallbacksNoop ==
    [][ \A p \in Holders, f \in CallbackFields :
          (InvokeCallback(p, f) /\ heap[pol[p][f]].kind = "noop")
              => UNCHANGED << pol, heap, seqs >> ]_vars

C7_Witness ==
    \E p \in Holders :
        /\ \A f \in CallbackFields : heap[pol[p][f]].kind = "noop"
        /\ CallsOf(p, pol[p].on_connect_callback) = 1
        /\ CallsOf(p, pol[p].on_connect_fail_callback) = 1
        /\ \E i \in DOMAIN seqs : Len(seqs[i].drawn) > 0

\* a builder method acting on the options held by c
BuilderStep(c) ==
    \/ \E g \in Generators : WithRetriesGenerator(c, g)
    \/ \E v \in BOOLEAN : WithExitIfFirstConnectFails(c, v)
    \/ WithOnConnectCallback(c)
    \/ WithOnDisconnectCallback(c)
    \/ WithOnConnectFailCallback(c)

\* C8: a builder call on one holder's options leaves the options of every
\* other holder, a retained clone included, as they were.
C8_CloneUnaffected ==
    [][ \A c \in Holders :
          BuilderStep(c) => \A p \in Holders \ {c} : pol'[p] = pol[p] ]_vars

C8_Witness ==
    /\ Len(pol) = 2
    /\ pol[1].retries_to_attempt_fn = 1
    /\ pol[1].exit_if_first_connect_fails = TRUE
    /\ pol[1].on_connect_callback = 2
    /\ pol[2].exit_if_first_connect_fails = FALSE
    /\ pol[2].on_connect_callback # 2
    /\ pol[2].on_disconnect_callback = pol[1].on_disconnect_callback

\* C4: every sequence made by the factory of with_retries_generator(|| [2s,
\* 2s, 2s]) yields 2, 2, 2 and then None at every later draw, however many
\* sequences the factory made before and however far they were drained.
C4_ThreeTwos ==
    \A i \in DOMAIN seqs :
        heap[seqs[i].fn].items = << 2, 2, 2 >>
            => \A k \in 1 .. Len(seqs[i].drawn) :
                   seqs[i].drawn[k] = IF k <= 3 THEN 2 ELSE None

C4_Witness ==
    \E i, j \in DOMAIN seqs :
        /\ i < j
        /\ seqs[i].fn = seqs[j].fn
        /\ seqs[i].drawn = << 2, 2, 2, None, None >>
        /\ seqs[j].drawn = << 2, 2, 2 >>

\* C9: new() and the builder methods call neither the generator nor a
\* callback: the generator has run once per call of retries_to_attempt_fn
\* (not at all if it was never called), a callback once per invocation, and
\* a sequence yields the generator's items in the generator's order.
C9_LazyGenerator ==
    /\ \A a \in Arcs :
          /\ heap[a].kind = "gen" => heap[a].count = FactoryCalls(a)
          /\ heap[a].kind = "cb" => heap[a].count = TotalCalls(a)
          /\ heap[a].kind \in {"noop", "std"} => heap[a].count = 0
    /\ \A i \in DOMAIN seqs :
          heap[seqs[i].fn].kind = "gen"
              => Somes(seqs[i].drawn) \o seqs[i].it.rest = heap[seqs[i].fn].items

C9_Witness ==
    \E a, b \in Arcs :
        /\ heap[a].kind = "gen" /\ heap[a].count = 2
        /\ heap[b].kind = "gen" /\ heap[b].count = 0
        /\ \E p \in Holders : pol[p].retries_to_attempt_fn = b
        /\ \E i \in DOMAIN seqs : seqs[i].fn = a /\ seqs[i].drawn = << 3, 1, None >>

\* C10: a sequence of the standard strategy never decreases and stays
\* within 5 and 1800 seconds; after a draw of 1800 every draw is 1800.
C10_MonotoneBounded ==
    \A i \in DefaultSeqs :
        \A k \in 1 .. Len(seqs[i].drawn) :
            /\ seqs[i].drawn[k] >= 5
            /\ seqs[i].drawn[k] <= 1800
            /\ k > 1 => seqs[i].drawn[k - 1] <= seqs[i].drawn[k]
            /\ \A m \in 1 .. k : seqs[i].drawn[m] = 1800 => seqs[i].drawn[k] = 1800

C10_Witness ==
    \E i \in DefaultSeqs :
        /\ Len(seqs[i].drawn) = 13
        /\ seqs[i].drawn[1] = 5
        /\ seqs[i].drawn[12] = 1800
        /\ seqs[i].drawn[13] = 1800
====
